---- MODULE Spec2Model ----
(*****************************************************************************)
(* Bridge controller of browser-use-core/browser_use/bridge_controller.py:  *)
(* the websocket server handler, the inbound-message dispatcher and the     *)
(* id-correlated send_command, as coroutines of one asyncio event loop;     *)
(* BridgeSession.get_browser_state_with_recovery, the reconstruction of     *)
(* the page state from a get_dom result; the operations of the session      *)
(* (navigate, click, input text) with the tab handles of its tabs; the      *)
(* task control of web_app.py (run_task, stop_task and the task threads);   *)
(* and the autocomplete history of MemoryManager.                           *)
(* Every action is one run of a coroutine or thread between two points      *)
(* where another one can run.                                               *)
(*****************************************************************************)
EXTENDS Integers, FiniteSets, Sequences, TLC

\* ------------------------------------------------------------------ bounds
MaxCalls == 2       \* send_command invocations
MaxConns == 2       \* extension connections the server accepts
MaxResult == 2      \* distinct result payloads the extension can send

\* Python's None: the initial ws, a waiter's initial result, a missing id
None == 0

Calls == 1..MaxCalls
Conns == 1..MaxConns
Results == 1..MaxResult

VARIABLES
    ws,                 \* BridgeController.ws: None or the tracked connection
    connected,          \* BridgeController.connected
    pending_commands,   \* BridgeController.pending_commands: cmd_id -> waiter
    conn,               \* per connection: "new", "open", "closed" (peer gone,
                        \*   handler not yet resumed), "gone" (handler exited)
    wire,               \* per connection: the frames written to it
    issued,             \* number of uuid4() draws so far
    pc,                 \* per call: position of the send_command coroutine
    cmd_id,             \* per call: the id it generated (None before)
    wake,               \* per call: what ended the wait_for, in order
    outcome,            \* per call: how send_command ended
    result,             \* per call: the value send_command returned
    last,               \* per call: the payload of the latest response frame
                        \*   that carried its id while the call was suspended
                        \*   (kept for a call that returned, None otherwise)
    ws_server,          \* BridgeController.ws_server, the listening endpoint:
                        \*   "serving", "closing" (stop_server suspended in
                        \*   wait_closed), "closed" (stop_server returned)
    noise               \* the kind of the inbound frame the latest step
                        \*   processed (and its connection, for a malformed
                        \*   frame); Quiet if the step processed none or the
                        \*   frame resolved a waiter

\* the variables of the controller; those of the other components of the
\* file are declared with the component
bridge == <<ws, connected, pending_commands, conn, wire, issued, pc, cmd_id,
            wake, outcome, result, last>>

ctrl == <<ws, connected, pending_commands>>
callvars == <<pc, cmd_id, wake, outcome, result>>
ghost == <<last>>

\* ------------------------------------------------------------------ frames
WelcomeFrame == [type |-> "welcome", id |-> None]
CommandFrame(id) == [type |-> "command", id |-> id]

\* inbound messages: valid = FALSE is a frame json.loads rejects
Response(id, res) == [valid |-> TRUE, type |-> "response", id |-> id, result |-> res]
Info(t) == [valid |-> TRUE, type |-> t, id |-> None, result |-> None]
Malformed == [valid |-> FALSE, type |-> "other", id |-> None, result |-> None]

IssuedIds == {cmd_id[c] : c \in Calls} \ {None}

Messages ==
    {Response(i, r) : i \in IssuedIds \cup {None}, r \in Results}
    \cup {Info(t) : t \in {"welcome", "ready", "error", "other"}}
    \cup {Malformed}

\* ------------------------------------------------------- pure helpers
\* uuid.uuid4(): an id no earlier draw returned
uuid4Reused(n) == 1
uuid4(n) == n + 1

\* the guard of send_command, line 99
NotConnectedUnchecked(c, w) == FALSE
NotConnected(c, w) == ~c \/ w = None

is_connected == connected /\ ws # None

\* self.pending_commands[cmd_id] = {'event': event, 'result': None}
RegisterWaiter(pend, id) ==
    [i \in DOMAIN pend \cup {id} |->
        IF i = id THEN [event |-> FALSE, result |-> None] ELSE pend[i]]

\* del self.pending_commands[cmd_id]
RemoveWaiterSkipped(pend, id) == pend
RemoveWaiter(pend, id) == [i \in DOMAIN pend \ {id} |-> pend[i]]

\* the 'response' branch of _handle_message
ResolveOldest(pend, id, res) ==
    IF DOMAIN pend # {}
    THEN LET o == CHOOSE i \in DOMAIN pend : \A j \in DOMAIN pend : i <= j
         IN [pend EXCEPT ![o] = [event |-> TRUE, result |-> res]]
    ELSE pend
ResolveWaiter(pend, id, res) ==
    IF id \in DOMAIN pend
    THEN [pend EXCEPT ![id] = [event |-> TRUE, result |-> res]]
    ELSE pend

\* _handle_message as a function of the waiter map
DispatchFailingOnError(pend, data) ==
    IF data.type = "response"
    THEN ResolveWaiter(pend, data.id, data.result)
    ELSE IF data.type = "error"
         THEN [i \in DOMAIN pend |-> [event |-> TRUE, result |-> None]]
         ELSE pend
Dispatch(pend, data) ==
    IF data.type = "response"
    THEN ResolveWaiter(pend, data.id, data.result)
    ELSE pend

Suspended(c) == pc[c] \in {"sending", "waiting"}

\* asyncio.Event.set(): a call suspended on an event that is now set is
\* scheduled to run; "set" is an event set before wait_for was entered
Woken(pend) ==
    [c \in Calls |->
        IF /\ Suspended(c) /\ wake[c] = "none"
           /\ cmd_id[c] \in DOMAIN pend
           /\ pend[cmd_id[c]].event
        THEN (IF pc[c] = "sending" THEN "set" ELSE "event")
        ELSE wake[c]]

\* the connection the call's command frame was written to (None if none)
WrittenTo(c) ==
    IF \E k \in Conns : CommandFrame(cmd_id[c]) \in wire[k]
    THEN CHOOSE k \in Conns : CommandFrame(cmd_id[c]) \in wire[k]
    ELSE None

\* what the receive loop does with the connection after json.loads raised
\* JSONDecodeError (lines 52-53): it logs and takes the next frame
OnDecodeErrorClose(st) == "closed"
OnDecodeError(st) == st

\* no frame processed by the latest step, or one that resolved a waiter
Quiet == [kind |-> "none", conn |-> None]

\* the kind of frame `data`, as handler k is about to process it
Note(k, data) ==
    IF ~data.valid THEN [kind |-> "malformed", conn |-> k]
    ELSE IF data.type = "response" /\ data.id \in DOMAIN pending_commands
         THEN (IF noise = [kind |-> "malformed", conn |-> k]
               THEN [kind |-> "recovered", conn |-> k]
               ELSE Quiet)
         ELSE IF data.type = "error"
              THEN [kind |-> "error", conn |-> None]
              ELSE [kind |-> "ignored", conn |-> None]

\* -------------------------------------------------------------------- Init
\* BridgeController.__init__ followed by start_server (lines 33-73)
Init ==
    /\ ws = None
    /\ connected = FALSE
    /\ pending_commands = [i \in {} |-> [event |-> FALSE, result |-> None]]
    /\ conn = [k \in Conns |-> "new"]
    /\ wire = [k \in Conns |-> {}]
    /\ issued = 0
    /\ pc = [c \in Calls |-> "idle"]
    /\ cmd_id = [c \in Calls |-> None]
    /\ wake = [c \in Calls |-> "none"]
    /\ outcome = [c \in Calls |-> "none"]
    /\ result = [c \in Calls |-> None]
    /\ last = [c \in Calls |-> None]
    /\ ws_server = "serving"
    /\ noise = Quiet

\* ------------------------------------------------------- server handler
\* handler(websocket), lines 36-44: track the connection, send the welcome
TrackIfFree(k) == IF ws = None THEN k ELSE ws
TrackNothing(k) == None
Track(k) == k

Connect(k) ==
    /\ ws_server = "serving"
    /\ conn[k] = "new"
    /\ \A j \in Conns : j < k => conn[j] # "new"
    /\ ws' = Track(k)
    /\ connected' = TRUE
    /\ conn' = [conn EXCEPT ![k] = "open"]
    /\ wire' = [wire EXCEPT ![k] = @ \cup {WelcomeFrame}]
    /\ UNCHANGED <<pending_commands, issued, callvars, ghost>>

\* the peer or the network closes connection k; the handler learns of it
\* when it is next resumed
ConnectionLost(k) ==
    /\ conn[k] = "open"
    /\ conn' = [conn EXCEPT ![k] = "closed"]
    /\ UNCHANGED <<ctrl, wire, issued, callvars, ghost>>

\* the finally clause, lines 61-64: the waiter map is not touched
CleanupDroppingWaiters(pend) == [i \in {} |-> pend[i]]
CleanupSignallingWaiters(pend) ==
    [i \in DOMAIN pend |-> [event |-> TRUE, result |-> pend[i].result]]
Cleanup(pend) == pend

HandlerExit(k) ==
    /\ conn[k] = "closed"
    /\ ws' = None
    /\ connected' = FALSE
    /\ pending_commands' = Cleanup(pending_commands)
    /\ conn' = [conn EXCEPT ![k] = "gone"]
    /\ wake' = Woken(pending_commands')
    /\ UNCHANGED <<wire, issued, pc, cmd_id, outcome, result, ghost>>

\* one turn of the receive loop, lines 47-55, with _handle_message, 82-95.
\* Frames queued before the close are still handed to the loop.
Receive(k, data) ==
    /\ conn[k] \in {"open", "closed"}
    /\ data \in Messages
    /\ LET pend == IF data.valid THEN Dispatch(pending_commands, data)
                   ELSE pending_commands
           \* a response frame carrying the id of call c, its waiter registered
           forCall(c) == /\ data.valid /\ data.type = "response"
                         /\ cmd_id[c] # None /\ data.id = cmd_id[c]
                         /\ cmd_id[c] \in DOMAIN pending_commands
                         /\ Suspended(c)
       IN /\ pending_commands' = pend
          /\ wake' = Woken(pend)
          /\ last' = [c \in Calls |->
                        IF forCall(c) THEN data.result ELSE last[c]]
    /\ conn' = [conn EXCEPT ![k] = IF data.valid THEN @ ELSE OnDecodeError(@)]
    /\ UNCHANGED <<ws, connected, wire, issued, pc, cmd_id, outcome, result>>

\* ---------------------------------------------------------- send_command
\* lines 99-119 up to the first suspension: the connection check, the id,
\* the waiter, and the write of the command frame to self.ws
SendCommand(c) ==
    /\ pc[c] = "idle"
    /\ \A j \in Calls : j < c => pc[j] # "idle"
    /\ IF NotConnected(connected, ws)
       THEN /\ pc' = [pc EXCEPT ![c] = "done"]
            /\ outcome' = [outcome EXCEPT ![c] = "not_connected"]
            /\ UNCHANGED <<pending_commands, wire, issued, cmd_id>>
       ELSE LET id == uuid4(issued)
            IN /\ issued' = issued + 1
               /\ cmd_id' = [cmd_id EXCEPT ![c] = id]
               /\ pending_commands' = RegisterWaiter(pending_commands, id)
               /\ wire' = IF ws \in Conns /\ conn[ws] = "open"
                          THEN [wire EXCEPT ![ws] = @ \cup {CommandFrame(id)}]
                          ELSE wire
               /\ pc' = [pc EXCEPT ![c] = "sending"]
               /\ UNCHANGED outcome
    /\ UNCHANGED <<ws, connected, conn, wake, result, ghost>>

\* line 119 returns: the frame is out, the call enters wait_for (line 122)
SendReturn(c) ==
    /\ pc[c] = "sending"
    /\ WrittenTo(c) # None
    /\ pc' = [pc EXCEPT ![c] = "waiting"]
    /\ UNCHANGED <<ctrl, conn, wire, issued, cmd_id, wake, outcome, result, ghost>>

\* line 119 raises ConnectionClosed: the except Exception clause, 134-138
SendRaise(c) ==
    /\ pc[c] = "sending"
    /\ IF WrittenTo(c) = None THEN TRUE ELSE conn[WrittenTo(c)] # "open"
    /\ pending_commands' = RemoveWaiter(pending_commands, cmd_id[c])
    /\ pc' = [pc EXCEPT ![c] = "done"]
    /\ outcome' = [outcome EXCEPT ![c] = "send_failed"]
    /\ wake' = [wake EXCEPT ![c] = "none"]
    /\ last' = [last EXCEPT ![c] = None]
    /\ UNCHANGED <<ws, connected, conn, wire, issued, cmd_id, result>>

\* the 30 s timer of asyncio.wait_for expires (line 122). An event set
\* before wait_for was entered ("set") completes the wait at once.
TimerFire(c) ==
    /\ pc[c] = "waiting"
    /\ wake[c] \in {"none", "event"}
    /\ wake' = [wake EXCEPT ![c] = IF @ = "none" THEN "timer" ELSE "event_timer"]
    /\ UNCHANGED <<ctrl, conn, wire, issued, pc, cmd_id, outcome, result, ghost>>

\* wait_for returned: lines 125-128. A missing entry is the KeyError that
\* the except Exception clause re-raises.
ResumeOk(c) ==
    /\ pc[c] = "waiting"
    /\ wake[c] \in {"set", "event", "event_timer"}
    /\ pc' = [pc EXCEPT ![c] = "done"]
    /\ IF cmd_id[c] \in DOMAIN pending_commands
       THEN /\ result' = [result EXCEPT ![c] = pending_commands[cmd_id[c]].result]
            /\ pending_commands' = RemoveWaiter(pending_commands, cmd_id[c])
            /\ outcome' = [outcome EXCEPT ![c] = "ok"]
            /\ UNCHANGED last
       ELSE /\ outcome' = [outcome EXCEPT ![c] = "error"]
            /\ last' = [last EXCEPT ![c] = None]
            /\ UNCHANGED <<result, pending_commands>>
    /\ wake' = [wake EXCEPT ![c] = "none"]
    /\ UNCHANGED <<ws, connected, conn, wire, issued, cmd_id>>

\* wait_for raised TimeoutError: lines 130-133. Timer first: always; event
\* first and the timer before the caller ran: the asyncio version decides.
ResumeTimeout(c) ==
    /\ pc[c] = "waiting"
    /\ wake[c] \in {"timer", "event_timer"}
    /\ pc' = [pc EXCEPT ![c] = "done"]
    /\ IF cmd_id[c] \in DOMAIN pending_commands
       THEN /\ pending_commands' = RemoveWaiter(pending_commands, cmd_id[c])
            /\ outcome' = [outcome EXCEPT ![c] = "timeout"]
       ELSE /\ outcome' = [outcome EXCEPT ![c] = "error"]
            /\ UNCHANGED pending_commands
    /\ wake' = [wake EXCEPT ![c] = "none"]
    /\ last' = [last EXCEPT ![c] = None]
    /\ UNCHANGED <<ws, connected, conn, wire, issued, cmd_id, result>>

\* the awaiting task is cancelled (web_app.py stop_task.cleanup_task):
\* CancelledError is a BaseException, so neither except clause of
\* send_command runs and the waiter stays registered
Cancel(c) ==
    /\ Suspended(c)
    /\ pc' = [pc EXCEPT ![c] = "done"]
    /\ outcome' = [outcome EXCEPT ![c] = "cancelled"]
    /\ wake' = [wake EXCEPT ![c] = "none"]
    /\ last' = [last EXCEPT ![c] = None]
    /\ UNCHANGED <<ctrl, conn, wire, issued, cmd_id, result>>

\* ----------------------------------------------------------- stop_server
\* lines 77-78: ws_server.close() stops accepting connections and closes
\* the open ones; their handlers leave the receive loop when next resumed
StopServer ==
    /\ ws_server = "serving"
    /\ ws_server' = "closing"
    /\ conn' = [k \in Conns |-> IF conn[k] = "open" THEN "closed" ELSE conn[k]]
    /\ UNCHANGED <<ctrl, wire, issued, callvars, ghost>>

\* what `await self.ws_server.wait_closed()` (line 79) waits for: every
\* connection handler has returned
WaitClosedNotAwaited == TRUE
HandlersDone == \A k \in Conns : conn[k] \in {"new", "gone"}

\* line 79 returns, then the log line 80
StopReturn ==
    /\ ws_server = "closing"
    /\ HandlersDone
    /\ ws_server' = "closed"
    /\ UNCHANGED bridge

\* ---------------------------------------------------------------- session
\* BridgeSession of the same file (lines 172-541): the page-state
\* reconstructor get_browser_state_with_recovery. The controller is its
\* environment: is_connected() and the outcome of each bridge command are
\* inputs of the session's steps.

\* ------------------------------------------------------------------ bounds
MaxRuns == 2        \* calls of get_browser_state_with_recovery
MaxElems == 2       \* raw elements in one get_dom result
MaxIndex == 1       \* largest index the extension assigns to an element

\* ------------------------------------------------------- optional values
\* a dictionary entry that may be missing, or a Python value that may be
\* None: the empty set, or the singleton of the value
Nothing == {}
Some(v) == {v}
The(o) == CHOOSE v \in o : TRUE
Opt(S) == {Nothing} \cup {Some(v) : v \in S}

\* d.get(key, default)
Get(o, default) == IF o = Nothing THEN default ELSE The(o)

\* d.get(key) or default: a missing entry and a falsy (zero) value both
\* give the default
GetOr(o, default) ==
    IF o = Nothing THEN default
    ELSE IF The(o) = 0 THEN default ELSE The(o)

\* --------------------------------------------------------------- literals
DefaultWidth == 1920
DefaultHeight == 1080
NoUrl == "None"                         \* self.current_url = None
Blank == "about:blank"
Landing == "https://www.google.com"
ErrorMarker == "Bridge Error: "
UnknownError == "Unknown error"

VARIABLES
    s_pc,           \* position of get_browser_state_with_recovery: "idle"
                    \*   (not running), or the bridge command it awaits:
                    \*   "navigate", "get_dom", "evaluate"
    runs,           \* calls started so far
    current_url,    \* BridgeSession.current_url
    page,           \* agent_current_page: its url and title
    entry_url,      \* current_url when the running (or last) call started
    sent,           \* bridge commands the running (or last) call issued
    nav_result,     \* what navigate returned or raised in this call
    dom_result,     \* what the latest get_dom returned or raised
    eval_result,    \* what evaluate returned or raised in this call
    ret,            \* how the latest call ended: not at all, by raising,
                    \*   or with the BrowserStateSummary it returned
    repeated,       \* the latest call succeeded on the very get_dom result
                    \*   the call before it had succeeded on
    tab_infos       \* BridgeSession._tab_infos

session == <<s_pc, runs, current_url, page, entry_url, sent, nav_result,
             dom_result, eval_result, ret, repeated, tab_infos>>

\* ------------------------------------------------------ raw get_dom data
\* one entry of dom_data['elements']
RawElements == [index : Opt(0..MaxIndex), tagName : Opt({"a"})]

ElementLists == UNION {[1..n -> RawElements] : n \in 0..MaxElems}

\* dom_data['viewport'], ['page'], ['pixels']; a missing dictionary reads
\* as the empty one (lines 305-307), every entry missing
NoViewport == [width |-> Nothing, height |-> Nothing,
               scrollX |-> Nothing, scrollY |-> Nothing]
NoPage == [width |-> Nothing, height |-> Nothing]
NoPixels == [above |-> Nothing, below |-> Nothing,
             left |-> Nothing, right |-> Nothing]
NoMetrics == [viewport |-> NoViewport, page |-> NoPage, pixels |-> NoPixels]

FullMetrics ==
    [viewport |-> [width |-> Some(800), height |-> Some(600),
                   scrollX |-> Some(10), scrollY |-> Some(20)],
     page |-> [width |-> Some(1000), height |-> Some(2000)],
     pixels |-> [above |-> Some(20), below |-> Some(1380),
                 left |-> Some(10), right |-> Some(190)]]

\* outcomes of bridge.get_dom(): it raises (not connected, timeout, failed
\* send, a response without a result object), or returns a result
DomRaise ==
    [kind |-> "raise", error |-> Nothing, url |-> Nothing, title |-> Nothing,
     elements |-> <<>>, metrics |-> NoMetrics, tabs |-> Nothing]
DomFailures ==
    {[kind |-> "fail", error |-> e, url |-> Nothing, title |-> Nothing,
      elements |-> <<>>, metrics |-> NoMetrics, tabs |-> Nothing] :
        e \in Opt({"no active tab"})}
\* dom_data['tabs'] as the extension reports it
TabLists == {<<[id |-> 2, url |-> "https://example.com/", title |-> "Example"],
               [id |-> 3, url |-> "https://example.org/", title |-> "Other"]>>}
DomSuccesses ==
    [kind : {"ok"}, error : {Nothing}, url : Opt({"https://example.com/"}),
     title : Opt({"Example"}), elements : ElementLists,
     metrics : {NoMetrics, FullMetrics}, tabs : Opt(TabLists)]
DomOutcomes == {DomRaise} \cup DomFailures \cup DomSuccesses

\* outcomes of bridge.navigate()
NoNav == [kind |-> "none", success |-> FALSE]
NavOutcomes == {[kind |-> "raise", success |-> FALSE]}
               \cup {[kind |-> "result", success |-> b] : b \in BOOLEAN}

\* outcomes of bridge.evaluate(): the sizes the page script reports
Sizes(w, h) == [width : Opt({w}), height : Opt({h})]
DimData == [viewport : Opt(Sizes(800, 600)), page : Opt(Sizes(1000, 2000))]
NoEval == [kind |-> "none", success |-> FALSE, data |-> Nothing]
EvalOutcomes ==
    {[kind |-> "raise", success |-> FALSE, data |-> Nothing]}
    \cup [kind : {"result"}, success : BOOLEAN, data : Opt(DimData)]

\* ---------------------------------------------------------- reconstruction
\* the DOMElementNode built from one raw element, lines 394-409
SnapshotOfSession(e) ==
    [tag_name |-> current_url,
     highlight_index |-> e.index,
     parent |-> Nothing]
Snapshot(e) ==
    [tag_name |-> Get(e.tagName, "div"),
     highlight_index |-> e.index,
     parent |-> Nothing]

\* element.get('index', 0), line 411
KeyOf(e) == Get(e.index, 0)

\* selector_map[key] = dom_element
PutIfAbsent(map, k, v) ==
    [i \in DOMAIN map \cup {k} |-> IF i \in DOMAIN map THEN map[i] ELSE v]
Put(map, k, v) == [i \in DOMAIN map \cup {k} |-> IF i = k THEN v ELSE map[i]]

EmptyMap == [i \in {} |-> Snapshot([index |-> Nothing, tagName |-> Nothing])]

\* the loop over the raw elements, lines 350-411
RECURSIVE BuildSelectorMap(_, _)
BuildSelectorMap(elements, map) ==
    IF elements = <<>> THEN map
    ELSE BuildSelectorMap(Tail(elements),
                          Put(map, KeyOf(Head(elements)), Snapshot(Head(elements))))

\* the order of the keys of the dictionary: that of their first insertion
RECURSIVE KeyOrder(_, _)
KeyOrder(elements, keys) ==
    IF elements = <<>> THEN keys
    ELSE LET k == KeyOf(Head(elements))
         IN KeyOrder(Tail(elements),
                     IF \E i \in DOMAIN keys : keys[i] = k
                     THEN keys ELSE Append(keys, k))

\* child.parent = root_element, lines 457-458
AdoptSkipped(snapshot) == snapshot
Adopt(snapshot) == [snapshot EXCEPT !.parent = Some("root")]

\* the selector map as returned: its values are the objects the root holds
AdoptAll(map) == [k \in DOMAIN map |-> Adopt(map[k])]

\* root_element, lines 433-454: list(selector_map.values()) as children
RootOf(map, order) ==
    [tag_name |-> "root",
     highlight_index |-> Nothing,
     parent |-> Nothing,
     children |-> [i \in 1..Len(order) |-> Adopt(map[order[i]])]]

\* page_info of the success path, lines 311-330
PageInfoOf(m) ==
    LET width == GetOr(m.viewport.width, DefaultWidth)
        height == GetOr(m.viewport.height, DefaultHeight)
    IN [viewport_width |-> width,
        viewport_height |-> height,
        page_width |-> GetOr(m.page.width, width),
        page_height |-> GetOr(m.page.height, height),
        scroll_x |-> Get(m.viewport.scrollX, 0),
        scroll_y |-> Get(m.viewport.scrollY, 0),
        pixels_above |-> Get(m.pixels.above, 0),
        pixels_below |-> Get(m.pixels.below, 0),
        pixels_left |-> Get(m.pixels.left, 0),
        pixels_right |-> Get(m.pixels.right, 0)]

\* self.current_url or "about:blank"
OrItself(url) == url
OrBlank(url) == IF url = NoUrl THEN Blank ELSE url

\* the BrowserStateSummary of the success path, lines 460-469; the title
\* is the sequence of its parts
Summary(dom, url) ==
    LET map == BuildSelectorMap(dom.elements, EmptyMap)
        current_url_ == Get(dom.url, OrBlank(url))
        current_title == <<Get(dom.title, "")>>
    IN [kind |-> "summary",
        element_tree |-> Some(RootOf(map, KeyOrder(dom.elements, <<>>))),
        selector_map |-> AdoptAll(map),
        url |-> current_url_,
        title |-> current_title,
        tabs |-> <<[page_id |-> 1, url |-> current_url_, title |-> current_title]>>,
        page_info |-> PageInfoOf(dom.metrics)]

\* the four sizes of the degraded path
DefaultDims ==
    [viewport_width |-> DefaultWidth, viewport_height |-> DefaultHeight,
     page_width |-> DefaultWidth, page_height |-> DefaultHeight]

\* lines 494-498: the sizes read from the result of the page script
DimsIgnored(dim_data) == DefaultDims
DimsOf(dim_data) ==
    LET none == [width |-> Nothing, height |-> Nothing]
        viewport == Get(dim_data.viewport, none)
        page_ == Get(dim_data.page, none)
        width == Get(viewport.width, DefaultWidth)
        height == Get(viewport.height, DefaultHeight)
    IN [viewport_width |-> width,
        viewport_height |-> height,
        page_width |-> Get(page_.width, width),
        page_height |-> Get(page_.height, height)]

\* dimension_result.get('result') is truthy: a dictionary with an entry
Truthy(data) ==
    IF data = Nothing THEN FALSE
    ELSE The(data).viewport # Nothing \/ The(data).page # Nothing

\* the try statement around bridge.evaluate, lines 479-511: the sizes it
\* leaves, or Nothing when an exception leaves it
TryEvaluateUnguarded(ev) ==
    IF ev.kind = "raise" THEN Nothing
    ELSE IF ev.success /\ Truthy(ev.data)
         THEN Some(DimsOf(The(ev.data))) ELSE Some(DefaultDims)
TryEvaluate(ev) ==
    IF ev.kind = "raise" THEN Some(DefaultDims)
    ELSE IF ev.success /\ Truthy(ev.data)
         THEN Some(DimsOf(The(ev.data))) ELSE Some(DefaultDims)

\* the BrowserStateSummary of the degraded path, lines 470-541
Degraded(dom, url, dims) ==
    LET error_url == OrBlank(url)
        error_title == <<ErrorMarker, Get(dom.error, UnknownError)>>
    IN [kind |-> "summary",
        element_tree |-> Nothing,
        selector_map |-> EmptyMap,
        url |-> error_url,
        title |-> error_title,
        tabs |-> <<[page_id |-> 1, url |-> error_url, title |-> error_title]>>,
        page_info |-> [viewport_width |-> dims.viewport_width,
                       viewport_height |-> dims.viewport_height,
                       page_width |-> dims.page_width,
                       page_height |-> dims.page_height,
                       scroll_x |-> 0, scroll_y |-> 0,
                       pixels_above |-> 0, pixels_below |-> 0,
                       pixels_left |-> 0, pixels_right |-> 0]]

\* an exception leaves the call: nothing is returned
RaisedAsDegraded == Degraded(DomRaise, NoUrl, DefaultDims)
Raised == [kind |-> "raised"]

\* ------------------------------------------------------------ session Init
\* BridgeSession.__init__, lines 175-195, with the mock page of line 194
SessionInit ==
    /\ s_pc = "idle"
    /\ runs = 0
    /\ current_url = NoUrl
    /\ page = [url |-> Blank, title |-> ""]
    /\ entry_url = NoUrl
    /\ sent = <<>>
    /\ nav_result = NoNav
    /\ dom_result = [DomRaise EXCEPT !.kind = "none"]
    /\ eval_result = NoEval
    /\ ret = [kind |-> "none"]
    /\ repeated = FALSE
    /\ tab_infos = <<>>

\* the condition of line 285
NeedsLandingOnlyNone(url) == url = NoUrl
NeedsLandingAlways(url) == TRUE
NeedsLanding(url) == url = NoUrl \/ url = Blank

\* get_browser_state_with_recovery up to its first await, lines 280-295;
\* `up` is what bridge.is_connected() answers
GetBrowserState(up) ==
    /\ s_pc = "idle"
    /\ runs < MaxRuns
    /\ runs' = runs + 1
    /\ entry_url' = current_url
    /\ IF ~up
       THEN /\ ret' = Raised
            /\ sent' = <<>>
            /\ UNCHANGED s_pc
       ELSE /\ sent' = IF NeedsLanding(current_url)
                       THEN <<"navigate">> ELSE <<"get_dom">>
            /\ s_pc' = IF NeedsLanding(current_url)
                       THEN "navigate" ELSE "get_dom"
            /\ UNCHANGED ret
    /\ nav_result' = NoNav
    /\ eval_result' = NoEval
    /\ UNCHANGED <<current_url, page, dom_result, repeated, tab_infos>>

\* bridge.navigate returned or raised, lines 287-295
NavigateReturn(nav) ==
    /\ s_pc = "navigate"
    /\ IF nav.kind = "raise"
       THEN /\ ret' = Raised
            /\ s_pc' = "idle"
            /\ UNCHANGED <<current_url, sent>>
       ELSE /\ current_url' = IF nav.success THEN Landing ELSE current_url
            /\ sent' = Append(sent, "get_dom")
            /\ s_pc' = "get_dom"
            /\ UNCHANGED ret
    /\ nav_result' = nav
    /\ UNCHANGED <<runs, page, entry_url, dom_result, eval_result, repeated,
                   tab_infos>>

\* bridge.get_dom returned or raised: the success path to its return
\* (lines 297-469), or the degraded path to its await (lines 470-480)
GetDomReturn(dom) ==
    /\ s_pc = "get_dom"
    /\ dom_result' = dom
    /\ IF dom.kind = "raise"
       THEN /\ ret' = Raised
            /\ s_pc' = "idle"
            /\ UNCHANGED <<current_url, page, sent, repeated, tab_infos>>
       ELSE IF dom.kind = "ok"
       THEN /\ tab_infos' = Get(dom.tabs, <<>>)
            /\ repeated' = (ret.kind = "summary" /\ dom_result = dom)
            /\ ret' = Summary(dom, current_url)
            /\ current_url' = ret'.url
            /\ page' = [url |-> ret'.url, title |-> ret'.title[1]]
            /\ s_pc' = "idle"
            /\ UNCHANGED sent
       ELSE /\ sent' = Append(sent, "evaluate")
            /\ s_pc' = "evaluate"
            /\ UNCHANGED <<current_url, page, ret, repeated, tab_infos>>
    /\ UNCHANGED <<runs, entry_url, nav_result, eval_result>>

\* bridge.evaluate returned or raised, lines 493-541
EvaluateReturn(ev) ==
    /\ s_pc = "evaluate"
    /\ eval_result' = ev
    /\ ret' = IF TryEvaluate(ev) = Nothing THEN Raised
              ELSE Degraded(dom_result, current_url, The(TryEvaluate(ev)))
    /\ s_pc' = "idle"
    /\ UNCHANGED <<runs, current_url, page, entry_url, sent, nav_result,
                   dom_result, repeated, tab_infos>>

\* ---------------------------------------------------------------- metrics
\* page_info of the success path as a function of the raw metrics alone
VARIABLES
    m_raw,          \* the viewport, page and pixels entries of dom_data
    m_info          \* the PageInfo built from them, Nothing before

metrics == <<m_raw, m_info>>

MetricInputs ==
    [viewport : [width : Opt({0, 800}), height : Opt({0, 600}),
                 scrollX : Opt({10}), scrollY : Opt({20})],
     page : [width : Opt({0, 1000}), height : Opt({2000})],
     pixels : [above : Opt({20}), below : Opt({1380}),
               left : Opt({10}), right : Opt({190})]]

MetricsIdle == m_raw = NoMetrics /\ m_info = Nothing
MetricsInit == m_raw \in MetricInputs /\ m_info = Nothing

\* lines 304-330
Measure ==
    /\ m_info = Nothing
    /\ m_info' = Some(PageInfoOf(m_raw))
    /\ UNCHANGED m_raw

\* ------------------------------------------------------------- operations
\* The operations of the session that higher layers call: navigate,
\* _click_element_node, _input_text_element_node (alone, or inside the
\* enhanced_input_text action) and close and goto of the tab handles the
\* `tabs` property builds. Each awaits bridge commands; what a command
\* returns or raises is an input of the step that resumes the operation.
MaxOps == 2         \* operations started

Urls == {"https://a.example/", "https://b.example/"}
TabIds == {None, 1, 2}      \* tab_info.get('id'): None when missing

\* the handles of the `tabs` property as constructed: a BridgePageProxy for
\* each stored tab (line 607), one CurrentPageProxy when none is stored
\* (lines 614-618)
Handles ==
    [cls : {"tab"}, id : TabIds, url : Urls, closed : {FALSE}]
    \cup [cls : {"current"}, id : {1}, url : Urls, closed : {FALSE}]
NoHandle == [cls |-> "none", id |-> None, url |-> "", closed |-> FALSE]

\* the element node handed to an operation: its highlight_index
Nodes == [highlight_index : Opt(0..MaxIndex)]

\* outcomes of bridge.click() and bridge.type_text(): the command raises,
\* or returns a result whose entries may be missing; flag is 'clicked' of a
\* click result and 'typed' of a type result
FlagOutcomes ==
    {[kind |-> "raise", success |-> Nothing, flag |-> Nothing, error |-> Nothing]}
    \cup [kind : {"result"}, success : Opt(BOOLEAN), flag : Opt(BOOLEAN),
          error : Opt({"element is stale"})]
NoOutcome == [kind |-> "none", success |-> Nothing, flag |-> Nothing, error |-> Nothing]

VARIABLES
    o_pc,           \* "idle", or the bridge command the operation awaits
    o_op,           \* the operation running, or the last one that ran
    o_n,            \* operations started so far
    o_node,         \* the element node the operation was given, if any
    o_url,          \* the url the operation was given, "" if none
    o_sent,         \* the commands the operation issued, in order
    o_click,        \* what the click command of the operation gave
    o_type,         \* what its type command gave
    o_nav,          \* what its navigate, navigate_tab or close_tab command gave
    o_ret,          \* how the operation ended
    proxy           \* the tab handle close or goto runs on

ops == <<o_pc, o_op, o_n, o_node, o_url, o_sent, o_click, o_type, o_nav,
         o_ret, proxy>>

\* the part of the session the operations leave alone
reconstructor == <<s_pc, runs, entry_url, sent, nav_result, dom_result,
                   eval_result, ret, repeated, tab_infos>>

\* send_command(method, params), lines 140-153
Command(method, params) == [method |-> method, params |-> params]

\* how an operation ends: it returns a value, or raises
Pending == [kind |-> "none", value |-> "", message |-> "", index |-> Nothing, detail |-> ""]
Returned(value) == [Pending EXCEPT !.kind = "returned", !.value = value]
Raise(message, index, detail) ==
    [Pending EXCEPT !.kind = "raised", !.message = message, !.index = index,
                    !.detail = detail]
\* the exception of send_command passing through the operation
BridgeError == Raise("bridge", Nothing, "")
Bool(b) == IF b THEN "True" ELSE "False"

OpsInit ==
    /\ o_pc = "idle"
    /\ o_op = "none"
    /\ o_n = 0
    /\ o_node = Nothing
    /\ o_url = ""
    /\ o_sent = <<>>
    /\ o_click = NoOutcome
    /\ o_type = NoOutcome
    /\ o_nav = NoNav
    /\ o_ret = Pending
    /\ proxy = NoHandle

\* an operation is called: nothing of the one before is left
Begin(op, node, url) ==
    /\ o_pc = "idle"
    /\ o_n < MaxOps
    /\ o_n' = o_n + 1
    /\ o_op' = op
    /\ o_node' = node
    /\ o_url' = url
    /\ o_click' = NoOutcome
    /\ o_type' = NoOutcome
    /\ o_nav' = NoNav

\* BridgeSession.navigate up to its await, lines 262-264
Navigate(url) ==
    /\ Begin("navigate", Nothing, url)
    /\ o_sent' = <<Command("navigate", [url |-> url])>>
    /\ o_pc' = "navigate"
    /\ o_ret' = Pending
    /\ UNCHANGED <<proxy, current_url, page>>

\* result.get('success') of line 265
NavigateAlwaysTracked(nav) == TRUE
NavigateSucceeded(nav) == nav.success

\* bridge.navigate returned or raised, lines 264-274
NavigateDone(nav) ==
    /\ o_op = "navigate" /\ o_pc = "navigate"
    /\ o_pc' = "idle"
    /\ o_nav' = nav
    /\ IF nav.kind = "raise"
       THEN /\ o_ret' = BridgeError
            /\ UNCHANGED <<current_url, page>>
       ELSE IF NavigateSucceeded(nav)
       THEN /\ current_url' = o_url
            /\ page' = [page EXCEPT !.url = o_url]
            /\ o_ret' = Returned("True")
       ELSE /\ o_ret' = Returned("False")
            /\ UNCHANGED <<current_url, page>>
    /\ UNCHANGED <<o_op, o_n, o_node, o_url, o_sent, o_click, o_type, proxy>>

\* _click_element_node up to its await, lines 648-653, or to the raise of
\* line 670 when the node has no highlight_index
ClickElementNode(node) ==
    /\ Begin("click", Some(node), "")
    /\ IF node.highlight_index = Nothing
       THEN /\ o_sent' = <<>>
            /\ o_pc' = "idle"
            /\ o_ret' = Raise("Element missing highlight_index", Nothing, "")
       ELSE /\ o_sent' = <<Command("click", [index |-> The(node.highlight_index)])>>
            /\ o_pc' = "click"
            /\ o_ret' = Pending
    /\ UNCHANGED <<proxy, current_url, page>>

\* line 654: result.get('success', False) and result.get('clicked', False)
ClickedOnSuccessAlone(res) == Get(res.success, FALSE)
Clicked(res) == Get(res.success, FALSE) /\ Get(res.flag, FALSE)

\* bridge.click returned or raised in _click_element_node, lines 653-666
ClickDone(res) ==
    /\ o_op = "click" /\ o_pc = "click"
    /\ o_pc' = "idle"
    /\ o_click' = res
    /\ o_ret' = IF res.kind = "raise" THEN BridgeError
                ELSE IF Clicked(res) THEN Returned("None")
                ELSE Raise("Click failed for element",
                           The(o_node).highlight_index,
                           Get(res.error, "unknown error"))
    /\ UNCHANGED <<o_op, o_n, o_node, o_url, o_sent, o_type, o_nav, proxy,
                   current_url, page>>

\* what the caller of _input_text_element_node gets: the operation's own
\* outcome, or what enhanced_input_text makes of it (lines 46-90 of
\* controller/enhanced_actions.py): the returned value is dropped and an
\* ActionResult reporting the input is returned, an exception is wrapped
\* into a BrowserError
Outcome(op, inner) ==
    IF op # "enhanced_input_text" THEN inner
    ELSE IF inner.kind = "returned" THEN Returned("ActionResult")
    ELSE Raise("Failed to input text into element",
               The(o_node).highlight_index, inner.message)

\* _input_text_element_node up to its first await, lines 672-677, or to
\* its return when the node has no highlight_index (lines 690-691); op
\* tells whether it runs alone or inside enhanced_input_text
InputTextElementNode(op, node) ==
    /\ op \in {"input_text", "enhanced_input_text"}
    /\ Begin(op, Some(node), "")
    /\ IF node.highlight_index = Nothing
       THEN /\ o_sent' = <<>>
            /\ o_pc' = "idle"
            /\ o_ret' = Outcome(op, Returned("False"))
       ELSE /\ o_sent' = <<Command("click", [index |-> The(node.highlight_index)])>>
            /\ o_pc' = "click"
            /\ o_ret' = Pending
    /\ UNCHANGED <<proxy, current_url, page>>

\* bridge.click returned or raised in _input_text_element_node, lines
\* 677-689: the text is typed when click_result.get('success', False)
InputClickDone(res) ==
    /\ o_op \in {"input_text", "enhanced_input_text"} /\ o_pc = "click"
    /\ o_click' = res
    /\ IF res.kind = "raise"
       THEN /\ o_ret' = Outcome(o_op, BridgeError)
            /\ o_pc' = "idle"
            /\ UNCHANGED o_sent
       ELSE IF Get(res.success, FALSE)
       THEN /\ o_sent' = Append(o_sent, Command("type", [text |-> "hello"]))
            /\ o_pc' = "type"
            /\ UNCHANGED o_ret
       ELSE /\ o_ret' = Outcome(o_op, Returned("False"))
            /\ o_pc' = "idle"
            /\ UNCHANGED o_sent
    /\ UNCHANGED <<o_op, o_n, o_node, o_url, o_type, o_nav, proxy,
                   current_url, page>>

\* bridge.type_text returned or raised, lines 680-686
InputTypeDone(res) ==
    /\ o_op \in {"input_text", "enhanced_input_text"} /\ o_pc = "type"
    /\ o_type' = res
    /\ o_pc' = "idle"
    /\ o_ret' = IF res.kind = "raise" THEN Outcome(o_op, BridgeError)
                ELSE Outcome(o_op, Returned(Bool(Get(res.success, FALSE)
                                                 /\ Get(res.flag, FALSE))))
    /\ UNCHANGED <<o_op, o_n, o_node, o_url, o_sent, o_click, o_nav, proxy,
                   current_url, page>>

\* close() of a tab handle up to its await (line 589), or to its return
\* for the handle of the current page (lines 626-627), which sends nothing
Close(handle) ==
    /\ Begin("close", Nothing, "")
    /\ IF handle.cls = "tab"
       THEN /\ o_sent' = <<Command("close_tab", [tabId |-> handle.id])>>
            /\ o_pc' = "close_tab"
            /\ o_ret' = Pending
       ELSE /\ o_sent' = <<>>
            /\ o_pc' = "idle"
            /\ o_ret' = Returned("None")
    /\ proxy' = IF handle.cls = "tab" THEN handle
                ELSE [handle EXCEPT !.closed = TRUE]
    /\ UNCHANGED <<current_url, page>>

\* bridge.send_command('close_tab') returned or raised, lines 588-592: the
\* handle is marked closed after the await, an exception is logged
CloseDone(res) ==
    /\ o_op = "close" /\ o_pc = "close_tab"
    /\ o_pc' = "idle"
    /\ o_nav' = res
    /\ proxy' = IF res.kind = "raise" THEN proxy
                ELSE [proxy EXCEPT !.closed = TRUE]
    /\ o_ret' = Returned("None")
    /\ UNCHANGED <<o_op, o_n, o_node, o_url, o_sent, o_click, o_type,
                   current_url, page>>

\* goto(url) of a tab handle up to its await: navigate_tab for a stored
\* tab (line 596), navigate for the handle of the current page (line 630)
Goto(handle, url) ==
    /\ Begin("goto", Nothing, url)
    /\ proxy' = handle
    /\ o_sent' = IF handle.cls = "tab"
                 THEN <<Command("navigate_tab", [tabId |-> handle.id, url |-> url])>>
                 ELSE <<Command("navigate", [url |-> url])>>
    /\ o_pc' = IF handle.cls = "tab" THEN "navigate_tab" ELSE "navigate"
    /\ o_ret' = Pending
    /\ UNCHANGED <<current_url, page>>

\* the command of goto returned or raised, lines 596-597 and 630-631: the
\* url is stored after the await, an exception leaves goto
GotoDone(res) ==
    /\ o_op = "goto" /\ o_pc \in {"navigate_tab", "navigate"}
    /\ o_pc' = "idle"
    /\ o_nav' = res
    /\ proxy' = IF res.kind = "raise" THEN proxy
                ELSE [proxy EXCEPT !.url = o_url]
    /\ o_ret' = IF res.kind = "raise" THEN BridgeError ELSE Returned("None")
    /\ UNCHANGED <<o_op, o_n, o_node, o_url, o_sent, o_click, o_type,
                   current_url, page>>

\* ------------------------------------------------------- handle equality
\* __eq__ of the tab handles as a function of the two objects compared
VARIABLES
    eq_self,        \* the handle on the left of ==
    eq_other,       \* the object on the right
    eq_out          \* what __eq__ returned, Nothing before

equality == <<eq_self, eq_other, eq_out>>

\* the objects a handle is compared with: another handle, the session's
\* MockPage, an object with a url and no id, an object with neither
Objects ==
    Handles
    \cup [cls : {"mock", "page"}, id : {None}, url : Urls, closed : {FALSE}]
    \cup {[cls |-> "plain", id |-> None, url |-> "", closed |-> FALSE]}

\* hasattr(other, name): MockPage.__getattr__ (lines 232-240) gives None
\* for every attribute it lacks, so it has an id, which is None
HasAttr(other, name) ==
    IF name = "id" THEN other.cls \in {"tab", "current", "mock"}
    ELSE other.cls # "plain"

\* BridgePageProxy.__eq__, lines 599-605, and CurrentPageProxy.__eq__,
\* lines 633-636
Eq(self, other) ==
    IF self.cls = "tab"
    THEN IF HasAttr(other, "id") THEN self.id = other.id
         ELSE IF HasAttr(other, "url") THEN self.url = other.url
         ELSE FALSE
    ELSE IF HasAttr(other, "url") THEN self.url = other.url
         ELSE FALSE

EqualityIdle ==
    /\ eq_self = NoHandle /\ eq_other = NoHandle /\ eq_out = Nothing
EqualityInit ==
    /\ eq_self \in Handles /\ eq_other \in Objects /\ eq_out = Nothing

\* eq_self == eq_other is evaluated
Compare ==
    /\ eq_out = Nothing
    /\ eq_out' = Some(Eq(eq_self, eq_other))
    /\ UNCHANGED <<eq_self, eq_other>>

\* ----------------------------------------------------------------- web app
\* The task control of web_app.py: the request handlers run_task and
\* stop_task, the task threads run_task starts (run_browser_task_async) and
\* the cleanup threads stop_task starts. They share module globals without
\* a lock; a step is what one thread does up to its next access of a
\* shared global.
MaxTasks == 2       \* task threads run_task can start
MaxStops == 2       \* stop requests accepted

Threads == 1..MaxTasks

VARIABLES
    is_task_running,
    stop_task_requested,
    current_task_loop,  \* the thread whose event loop it is, None if none
    t_pc,               \* where each task thread is: "unborn", the line of
                        \*   run_browser_task_async it executes next,
                        \*   "executing" inside run_until_complete, "dead"
    cancel_req,         \* threads whose loop tasks a cleanup has cancelled
    emitted,            \* the closing event each task thread has emitted
    cleanups,           \* cleanup threads started and not yet run
    stops,              \* stop requests accepted so far
    accepted,           \* threads that were running a task when a stop
                        \*   request was accepted
    answer              \* what the latest request answered

web == <<is_task_running, stop_task_requested, current_task_loop, t_pc,
         cancel_req, emitted, cleanups, stops, accepted, answer>>

\* lines 45-48
WebInit ==
    /\ is_task_running = FALSE
    /\ stop_task_requested = FALSE
    /\ current_task_loop = None
    /\ t_pc = [t \in Threads |-> "unborn"]
    /\ cancel_req = {}
    /\ emitted = [t \in Threads |-> "none"]
    /\ cleanups = 0
    /\ stops = 0
    /\ accepted = {}
    /\ answer = "none"

\* threading.Thread.is_alive()
Alive(t) == t_pc[t] \notin {"unborn", "dead"}

\* /api/run_task, lines 370-396, a model being selected and the prompt not
\* empty
RunTask ==
    /\ IF is_task_running
       THEN /\ answer' = "Task already running"
            /\ UNCHANGED t_pc
       ELSE /\ \E t \in Threads :
                  /\ t_pc[t] = "unborn"
                  /\ \A u \in Threads : u < t => t_pc[u] # "unborn"
                  /\ t_pc' = [t_pc EXCEPT ![t] = "508"]
            /\ answer' = "Task started"
    /\ UNCHANGED <<is_task_running, stop_task_requested, current_task_loop,
                   cancel_req, emitted, cleanups, stops, accepted>>

\* /api/stop_task, lines 400-452
StopTask ==
    /\ stops < MaxStops
    /\ IF ~is_task_running
       THEN /\ answer' = "No task running"
            /\ UNCHANGED <<is_task_running, stop_task_requested, cleanups,
                           stops, accepted>>
       ELSE /\ stop_task_requested' = TRUE
            /\ is_task_running' = FALSE
            /\ cleanups' = cleanups + 1
            /\ stops' = stops + 1
            /\ accepted' = accepted \cup
                              {t \in Threads : Alive(t) /\ emitted[t] = "none"}
            /\ answer' = "Task stop requested"
    /\ UNCHANGED <<current_task_loop, t_pc, cancel_req, emitted>>

\* cleanup_task, lines 414-447: every task of the current loop that is
\* not done is cancelled
CleanupTask ==
    /\ cleanups > 0
    /\ cleanups' = cleanups - 1
    /\ cancel_req' = IF current_task_loop # None
                        /\ t_pc[current_task_loop] = "executing"
                     THEN cancel_req \cup {current_task_loop}
                     ELSE cancel_req
    /\ UNCHANGED <<is_task_running, stop_task_requested, current_task_loop,
                   t_pc, emitted, stops, accepted, answer>>

\* one step of task thread t in run_browser_task_async, lines 504-558; how
\* tells how run_until_complete of line 525 ends: execute_browser_task
\* returned (the agent finished or failed, or a stop was noticed), raised,
\* or was cancelled
ThreadStep(t, how) ==
    /\ Alive(t)
    /\ CASE t_pc[t] = "508" ->
              /\ is_task_running' = TRUE
              /\ t_pc' = [t_pc EXCEPT ![t] = "509"]
              /\ UNCHANGED <<stop_task_requested, current_task_loop,
                             cancel_req, emitted>>
         [] t_pc[t] = "509" ->
              /\ stop_task_requested' = FALSE
              /\ t_pc' = [t_pc EXCEPT ![t] = "516"]
              /\ UNCHANGED <<is_task_running, current_task_loop, cancel_req,
                             emitted>>
         [] t_pc[t] = "516" ->
              /\ current_task_loop' = t
              /\ t_pc' = [t_pc EXCEPT ![t] = "520"]
              /\ UNCHANGED <<is_task_running, stop_task_requested,
                             cancel_req, emitted>>
         [] t_pc[t] = "520" ->
              /\ IF stop_task_requested
                 THEN /\ emitted' = [emitted EXCEPT ![t] = "task_stopped"]
                      /\ t_pc' = [t_pc EXCEPT ![t] = "549"]
                 ELSE /\ t_pc' = [t_pc EXCEPT ![t] = "executing"]
                      /\ UNCHANGED emitted
              /\ UNCHANGED <<is_task_running, stop_task_requested,
                             current_task_loop, cancel_req>>
         [] t_pc[t] = "executing" ->
              /\ how = "cancelled" => t \in cancel_req
              /\ t_pc' = [t_pc EXCEPT ![t] =
                            CASE how = "returned" -> "528"
                              [] how = "raised" -> "549 raised"
                              [] how = "cancelled" -> "549"]
              /\ emitted' = IF how = "cancelled"
                            THEN [emitted EXCEPT ![t] = "task_stopped"]
                            ELSE emitted
              /\ UNCHANGED <<is_task_running, stop_task_requested,
                             current_task_loop, cancel_req>>
         [] t_pc[t] = "528" ->
              /\ emitted' = [emitted EXCEPT ![t] =
                               IF stop_task_requested THEN "task_stopped"
                               ELSE "task_completed"]
              /\ t_pc' = [t_pc EXCEPT ![t] = "549"]
              /\ UNCHANGED <<is_task_running, stop_task_requested,
                             current_task_loop, cancel_req>>
         [] t_pc[t] \in {"549", "549 raised"} ->
              /\ current_task_loop' = None
              /\ t_pc' = [t_pc EXCEPT ![t] =
                            IF t_pc[t] = "549" THEN "557" ELSE "554"]
              /\ UNCHANGED <<is_task_running, stop_task_requested,
                             cancel_req, emitted>>
         [] t_pc[t] = "554" ->
              /\ emitted' = IF stop_task_requested THEN emitted
                            ELSE [emitted EXCEPT ![t] = "task_failed"]
              /\ t_pc' = [t_pc EXCEPT ![t] = "557"]
              /\ UNCHANGED <<is_task_running, stop_task_requested,
                             current_task_loop, cancel_req>>
         [] t_pc[t] = "557" ->
              /\ is_task_running' = FALSE
              /\ t_pc' = [t_pc EXCEPT ![t] = "558"]
              /\ UNCHANGED <<stop_task_requested, current_task_loop,
                             cancel_req, emitted>>
         [] t_pc[t] = "558" ->
              /\ stop_task_requested' = FALSE
              /\ t_pc' = [t_pc EXCEPT ![t] = "dead"]
              /\ UNCHANGED <<is_task_running, current_task_loop, cancel_req,
                             emitted>>
    /\ UNCHANGED <<cleanups, stops, accepted, answer>>

\* ------------------------------------------------------------------ memory
\* MemoryManager.autocomplete_history of controller/enhanced_actions.py
MaxEvents == 105    \* calls of record_autocomplete_event
MaxDetected == 1    \* of them, those that report a detection

HistoryCap == 50

VARIABLES
    autocomplete_history,
    recorded            \* every event recorded so far, in recording order

memory == <<autocomplete_history, recorded>>

\* MemoryManager.__init__, lines 248-251
MemoryInit == autocomplete_history = <<>> /\ recorded = <<>>

\* lines 278-279: history[-50:] when the history is longer than 50
TrimKeepingOldest(history) ==
    IF Len(history) > HistoryCap THEN SubSeq(history, 1, HistoryCap)
    ELSE history
Trim(history) ==
    IF Len(history) > HistoryCap
    THEN SubSeq(history, Len(history) - HistoryCap + 1, Len(history))
    ELSE history

\* record_autocomplete_event, lines 268-279; the loop's clock is the
\* number of the call
RecordAutocompleteEvent(element_index, detected) ==
    /\ Len(recorded) < MaxEvents
    /\ detected =>
          Cardinality({i \in DOMAIN recorded : recorded[i].detected}) < MaxDetected
    /\ LET event == [timestamp |-> Len(recorded) + 1,
                     element_index |-> element_index,
                     text |-> "test@gmail",
                     detected |-> detected]
       IN /\ autocomplete_history' = Trim(Append(autocomplete_history, event))
          /\ recorded' = Append(recorded, event)

\* ---------------------------------------------------------------- specs
vars == <<bridge, ws_server, noise, session, metrics, ops, equality, web, memory>>

\* the initial state: the controller serving, the session constructed, no
\* operation called, no metrics to compute, no handles to compare
Start == Init /\ SessionInit /\ MetricsIdle /\ OpsInit /\ EqualityIdle
         /\ WebInit /\ MemoryInit

\* the same with the raw metrics of a get_dom result at hand
MetricsStart == Init /\ SessionInit /\ MetricsInit /\ OpsInit /\ EqualityIdle
         /\ WebInit /\ MemoryInit

\* the same with a handle and an object to compare it with
EqualityStart == Init /\ SessionInit /\ MetricsIdle /\ OpsInit /\ EqualityInit
         /\ WebInit /\ MemoryInit

\* the controller alone: no stop_server, the session and the metrics idle
Next ==
    \/ \E k \in Conns : Connect(k) /\ UNCHANGED <<ws_server, noise, session, metrics, ops, equality, web, memory>>
    \/ \E k \in Conns : ConnectionLost(k) /\ UNCHANGED <<ws_server, noise, session, metrics, ops, equality, web, memory>>
    \/ \E k \in Conns : HandlerExit(k) /\ UNCHANGED <<ws_server, noise, session, metrics, ops, equality, web, memory>>
    \/ \E k \in Conns : \E data \in Messages :
          Receive(k, data) /\ UNCHANGED <<ws_server, noise, session, metrics, ops, equality, web, memory>>
    \/ \E c \in Calls : SendCommand(c) /\ UNCHANGED <<ws_server, noise, session, metrics, ops, equality, web, memory>>
    \/ \E c \in Calls : SendReturn(c) /\ UNCHANGED <<ws_server, noise, session, metrics, ops, equality, web, memory>>
    \/ \E c \in Calls : SendRaise(c) /\ UNCHANGED <<ws_server, noise, session, metrics, ops, equality, web, memory>>
    \/ \E c \in Calls : TimerFire(c) /\ UNCHANGED <<ws_server, noise, session, metrics, ops, equality, web, memory>>
    \/ \E c \in Calls : ResumeOk(c) /\ UNCHANGED <<ws_server, noise, session, metrics, ops, equality, web, memory>>
    \/ \E c \in Calls : ResumeTimeout(c) /\ UNCHANGED <<ws_server, noise, session, metrics, ops, equality, web, memory>>
    \/ \E c \in Calls : Cancel(c) /\ UNCHANGED <<ws_server, noise, session, metrics, ops, equality, web, memory>>

Spec == Start /\ [][Next]_vars

\* the event loop runs every ready coroutine and fires every due timer
FairSpec ==
    /\ Spec
    /\ \A c \in Calls :
          /\ WF_vars(TimerFire(c) /\ UNCHANGED <<ws_server, noise, session, metrics, ops, equality, web, memory>>)
          /\ WF_vars(ResumeOk(c) /\ UNCHANGED <<ws_server, noise, session, metrics, ops, equality, web, memory>>)
          /\ WF_vars(ResumeTimeout(c) /\ UNCHANGED <<ws_server, noise, session, metrics, ops, equality, web, memory>>)

\* the controller with the kind of the frame each step processes noted
FrameNext ==
    \/ \E k \in Conns : Connect(k) /\ noise' = Quiet /\ UNCHANGED <<ws_server, session, metrics, ops, equality, web, memory>>
    \/ \E k \in Conns : ConnectionLost(k) /\ noise' = Quiet /\ UNCHANGED <<ws_server, session, metrics, ops, equality, web, memory>>
    \/ \E k \in Conns : HandlerExit(k) /\ noise' = Quiet /\ UNCHANGED <<ws_server, session, metrics, ops, equality, web, memory>>
    \/ \E k \in Conns : \E data \in Messages :
          /\ Receive(k, data)
          /\ noise' = Note(k, data)
          /\ UNCHANGED <<ws_server, session, metrics, ops, equality, web, memory>>
    \/ \E c \in Calls : SendCommand(c) /\ noise' = Quiet /\ UNCHANGED <<ws_server, session, metrics, ops, equality, web, memory>>
    \/ \E c \in Calls : SendReturn(c) /\ noise' = Quiet /\ UNCHANGED <<ws_server, session, metrics, ops, equality, web, memory>>
    \/ \E c \in Calls : SendRaise(c) /\ noise' = Quiet /\ UNCHANGED <<ws_server, session, metrics, ops, equality, web, memory>>
    \/ \E c \in Calls : TimerFire(c) /\ noise' = Quiet /\ UNCHANGED <<ws_server, session, metrics, ops, equality, web, memory>>
    \/ \E c \in Calls : ResumeOk(c) /\ noise' = Quiet /\ UNCHANGED <<ws_server, session, metrics, ops, equality, web, memory>>
    \/ \E c \in Calls : ResumeTimeout(c) /\ noise' = Quiet /\ UNCHANGED <<ws_server, session, metrics, ops, equality, web, memory>>
    \/ \E c \in Calls : Cancel(c) /\ noise' = Quiet /\ UNCHANGED <<ws_server, session, metrics, ops, equality, web, memory>>

FrameSpec == Start /\ [][FrameNext]_vars

\* the controller with stop_server
StopNext ==
    \/ Next
    \/ StopServer /\ UNCHANGED <<noise, session, metrics, ops, equality, web, memory>>
    \/ StopReturn /\ UNCHANGED <<noise, session, metrics, ops, equality, web, memory>>

StopSpec == Start /\ [][StopNext]_vars

\* the session, the controller being its environment
SessionNext ==
    \/ \E up \in BOOLEAN :
          GetBrowserState(up) /\ UNCHANGED <<bridge, ws_server, noise, metrics, ops, equality, web, memory>>
    \/ \E nav \in NavOutcomes :
          NavigateReturn(nav) /\ UNCHANGED <<bridge, ws_server, noise, metrics, ops, equality, web, memory>>
    \/ \E dom \in DomOutcomes :
          GetDomReturn(dom) /\ UNCHANGED <<bridge, ws_server, noise, metrics, ops, equality, web, memory>>
    \/ \E ev \in EvalOutcomes :
          EvaluateReturn(ev) /\ UNCHANGED <<bridge, ws_server, noise, metrics, ops, equality, web, memory>>

SessionSpec == Start /\ [][SessionNext]_vars

\* the metrics of every raw input
MetricsNext ==
    Measure /\ UNCHANGED <<bridge, ws_server, noise, session, ops, equality, web, memory>>

MetricsSpec == MetricsStart /\ [][MetricsNext]_vars

\* the operations of the session, the controller being their environment
OpsNext ==
    \/ \E url \in Urls :
          Navigate(url) /\ UNCHANGED <<bridge, ws_server, noise, reconstructor, metrics, equality, web, memory>>
    \/ \E nav \in NavOutcomes :
          NavigateDone(nav) /\ UNCHANGED <<bridge, ws_server, noise, reconstructor, metrics, equality, web, memory>>
    \/ \E node \in Nodes :
          ClickElementNode(node) /\ UNCHANGED <<bridge, ws_server, noise, reconstructor, metrics, equality, web, memory>>
    \/ \E res \in FlagOutcomes :
          ClickDone(res) /\ UNCHANGED <<bridge, ws_server, noise, reconstructor, metrics, equality, web, memory>>
    \/ \E op \in {"input_text", "enhanced_input_text"} : \E node \in Nodes :
          InputTextElementNode(op, node) /\ UNCHANGED <<bridge, ws_server, noise, reconstructor, metrics, equality, web, memory>>
    \/ \E res \in FlagOutcomes :
          InputClickDone(res) /\ UNCHANGED <<bridge, ws_server, noise, reconstructor, metrics, equality, web, memory>>
    \/ \E res \in FlagOutcomes :
          InputTypeDone(res) /\ UNCHANGED <<bridge, ws_server, noise, reconstructor, metrics, equality, web, memory>>
    \/ \E handle \in Handles :
          Close(handle) /\ UNCHANGED <<bridge, ws_server, noise, reconstructor, metrics, equality, web, memory>>
    \/ \E res \in NavOutcomes :
          CloseDone(res) /\ UNCHANGED <<bridge, ws_server, noise, reconstructor, metrics, equality, web, memory>>
    \/ \E handle \in Handles : \E url \in Urls :
          Goto(handle, url) /\ UNCHANGED <<bridge, ws_server, noise, reconstructor, metrics, equality, web, memory>>
    \/ \E res \in NavOutcomes :
          GotoDone(res) /\ UNCHANGED <<bridge, ws_server, noise, reconstructor, metrics, equality, web, memory>>

OpsSpec == Start /\ [][OpsNext]_vars

\* the comparison of every handle with every object
EqualityNext ==
    Compare /\ UNCHANGED <<bridge, ws_server, noise, session, metrics, ops, web, memory>>

EqualitySpec == EqualityStart /\ [][EqualityNext]_vars

\* the web app: requests in any order, threads at any speed
WebNext ==
    \/ RunTask /\ UNCHANGED <<bridge, ws_server, noise, session, metrics, ops, equality, memory>>
    \/ StopTask /\ UNCHANGED <<bridge, ws_server, noise, session, metrics, ops, equality, memory>>
    \/ CleanupTask /\ UNCHANGED <<bridge, ws_server, noise, session, metrics, ops, equality, memory>>
    \/ \E t \in Threads : \E how \in {"returned", "raised", "cancelled"} :
          ThreadStep(t, how) /\ UNCHANGED <<bridge, ws_server, noise, session, metrics, ops, equality, memory>>

WebSpec == Start /\ [][WebNext]_vars

\* the memory manager, events recorded one after the other
MemoryNext ==
    \E detected \in BOOLEAN :
        /\ RecordAutocompleteEvent(5, detected)
        /\ UNCHANGED <<bridge, ws_server, noise, session, metrics, ops, equality, web>>

MemorySpec == Start /\ [][MemoryNext]_vars

\* ------------------------------------------------------------------ claims
Registered(c) == cmd_id[c] # None /\ cmd_id[c] \in DOMAIN pending_commands

EventSet(c) == Registered(c) /\ pending_commands[cmd_id[c]].event

\* C1: with any number of calls in flight and responses in any order, a
\* call is woken only by a response frame that carried its own id, its
\* waiter holds that frame's payload, and the value the call returns is the
\* payload of the response frame with its id.
C1_IdCorrelation ==
    \A c \in Calls :
        /\ (Suspended(c) /\ (EventSet(c) \/ wake[c] \in {"set", "event", "event_timer"}))
              => (last[c] \in Results /\ pending_commands[cmd_id[c]].result = last[c])
        /\ (Suspended(c) /\ Registered(c) /\ last[c] = None)
              => pending_commands[cmd_id[c]] = [event |-> FALSE, result |-> None]
        /\ outcome[c] = "ok" => (result[c] \in Results /\ result[c] = last[c])

\* the later command is answered first and has returned, the earlier one
\* still waits
C1_Witness ==
    /\ outcome[2] = "ok"
    /\ pc[1] = "waiting" /\ wake[1] = "none" /\ Registered(1)

\* C2 (as claimed): once a response has resolved a waiter, a second
\* response frame with the same id changes no state.
C2_SecondDeliveryNoOp ==
    [][\A c \in Calls : \A k \in Conns : \A r \in Results :
          (EventSet(c) /\ Receive(k, Response(cmd_id[c], r)))
              => UNCHANGED pending_commands]_vars

\* C3: a call whose timer expired before any response was delivered ends
\* (unless its task is cancelled) with the timeout error; after the timeout
\* error its id is absent from pending_commands, and a response frame with
\* that id delivered from then on changes no state at all.
C3_TimeoutCleanup ==
    /\ [](\A c \in Calls : outcome[c] = "timeout" => ~Registered(c))
    /\ [][\A c \in Calls :
            /\ (pc[c] = "waiting" /\ wake[c] = "timer" /\ pc'[c] = "done")
                  => outcome'[c] \in {"timeout", "cancelled"}
            /\ \A k \in Conns : \A r \in Results :
                  (outcome[c] = "timeout" /\ Receive(k, Response(cmd_id[c], r)))
                      => UNCHANGED vars]_vars

\* a call has timed out while a connection can still deliver its response
C3_Witness ==
    \E c \in Calls : /\ outcome[c] = "timeout"
                     /\ \E k \in Conns : conn[k] = "open"

\* C4 (as claimed): after the awaiting task was cancelled, the command's id
\* is gone from pending_commands.
C4_CancelledWaiterGone ==
    \A c \in Calls : outcome[c] = "cancelled" => ~Registered(c)

\* C5: send_command called with connected false or ws None ends at once
\* with the not-connected error, generates no id, registers no waiter,
\* writes no frame and leaves pending_commands as it was.
C5_NotConnected ==
    [][\A c \in Calls :
          (SendCommand(c) /\ (~connected \/ ws = None))
              => /\ pc'[c] = "done" /\ outcome'[c] = "not_connected"
                 /\ cmd_id'[c] = None
                 /\ UNCHANGED <<pending_commands, wire, issued>>]_vars

\* a call failed as not connected while another call's waiter was registered
C5_Witness ==
    \E c \in Calls : /\ outcome[c] = "not_connected"
                     /\ \E d \in Calls : d # c /\ Suspended(d) /\ Registered(d)

\* C6: the ids of any two calls differ, and every call in flight has its own
\* waiter in pending_commands: no registration overwrote another's waiter.
C6_DistinctIds ==
    /\ \A c, d \in Calls : (c # d /\ cmd_id[c] # None) => cmd_id[c] # cmd_id[d]
    /\ \A c \in Calls : Suspended(c) => Registered(c)
    /\ Cardinality(DOMAIN pending_commands)
          >= Cardinality({c \in Calls : Suspended(c)})

\* two calls are in flight at once
C6_Witness ==
    /\ \A c \in Calls : Suspended(c)
    /\ Cardinality(DOMAIN pending_commands) = MaxCalls

\* C7 (as claimed): every waiter a call registered has been removed once the
\* call has ended, by the success path or by the timeout path.
C7_RemovedExactlyOnce ==
    \A c \in Calls :
        (pc[c] = "done" /\ cmd_id[c] # None)
            => (~Registered(c) /\ outcome[c] \in {"ok", "timeout", "send_failed"})

\* C8: the handler's cleanup on disconnect clears ws and connected and leaves
\* pending_commands, and with it every waiter's result and signal, unchanged:
\* no waiting call is woken or ended by it.
C8_DisconnectKeepsWaiters ==
    [][\A k \in Conns :
          HandlerExit(k)
              => /\ ws' = None /\ connected' = FALSE
                 /\ UNCHANGED <<pending_commands, pc, wake, outcome>>]_vars

\* the connection was cleaned up with a waiter registered and unsignalled
C8_Witness ==
    /\ ws = None /\ ~connected
    /\ \E k \in Conns : conn[k] = "gone"
    /\ \E c \in Calls : pc[c] = "waiting" /\ wake[c] = "none" /\ Registered(c)

\* a call waiting for its response, unsignalled, whose command went to a
\* connection that has since been cleaned up
WaitingAfterDrop(c) ==
    /\ pc[c] = "waiting" /\ wake[c] = "none"
    /\ IF WrittenTo(c) = None THEN FALSE ELSE conn[WrittenTo(c)] = "gone"

\* C9 (as claimed): a command in flight when its connection dropped keeps
\* waiting and is resolved by nothing but its own timer.
C9_OnlyTimeoutAfterDrop ==
    [][\A c \in Calls :
          WaitingAfterDrop(c)
              => \/ pc'[c] = "waiting" /\ wake'[c] \in {"none", "timer"}
                 \/ outcome'[c] = "cancelled"]_vars

\* C9 (amended): the disconnect neither fails nor removes the waiter of a
\* command in flight; from then on the call keeps waiting until its own
\* timer expires, a response frame with its id arrives over another
\* connection, or its task is cancelled; it does end, and when the timer
\* expired first it ends with the timeout error.
C9_SurvivesDisconnect ==
    /\ [](\A c \in Calls : WaitingAfterDrop(c) =>
             /\ Registered(c)
             /\ pending_commands[cmd_id[c]] = [event |-> FALSE, result |-> None])
    /\ [][\A c \in Calls :
            /\ WaitingAfterDrop(c)
                  => \/ pc'[c] = "waiting" /\ wake'[c] \in {"none", "timer"}
                     \/ /\ pc'[c] = "waiting" /\ wake'[c] = "event"
                        /\ \E k \in Conns \ {WrittenTo(c)} : \E r \in Results :
                              Receive(k, Response(cmd_id[c], r))
                     \/ outcome'[c] = "cancelled"
            /\ (pc[c] = "waiting" /\ wake[c] = "timer" /\ pc'[c] = "done")
                  => outcome'[c] \in {"timeout", "cancelled"}]_vars
    /\ \A c \in Calls : WaitingAfterDrop(c) ~> pc[c] = "done"

\* a command is still waiting after its connection was cleaned up, and no
\* connection is tracked
C9_Witness ==
    \E c \in Calls : WaitingAfterDrop(c) /\ ws = None

\* the newest connection the server has accepted (None before the first)
Newest ==
    IF \E k \in Conns : conn[k] # "new"
    THEN CHOOSE k \in Conns : conn[k] # "new" /\ \A j \in Conns : j > k => conn[j] = "new"
    ELSE None

\* C10: a connection that arrives becomes the tracked handle at once, also
\* while an earlier one is open, and nothing is written to or changed on
\* the earlier one; every command frame is written to the newest
\* connection and to no other.
C10_SecondDisplacesFirst ==
    [][/\ \A k \in Conns :
            Connect(k) => /\ ws' = k /\ connected'
                          /\ \A j \in Conns \ {k} :
                                conn'[j] = conn[j] /\ wire'[j] = wire[j]
       /\ \A c \in Calls :
            SendCommand(c) => \A j \in Conns :
                                 wire'[j] # wire[j] => j = Newest]_vars

\* both connections are open, the second is tracked and a command has been
\* written to it
C10_Witness ==
    /\ conn[1] = "open" /\ conn[2] = "open" /\ ws = 2
    /\ \E c \in Calls : Suspended(c) /\ WrittenTo(c) = 2

\* C11: a step that processes a welcome, ready, error or unknown-type frame, or a
\* response frame whose id has no registered waiter, changes nothing: the
\* waiter map with every waiter's result and signal, the tracked
\* connection, the connected flag, and every call stay as they were. In
\* particular an error frame neither resolves nor fails a waiter.
C11_IgnoredFramesChangeNothing ==
    [][noise'.kind \in {"ignored", "error"}
          => UNCHANGED <<ws, connected, pending_commands, conn,
                         pc, wake, outcome, result>>]_vars

\* an error frame was processed while a call waits, unsignalled, on the
\* tracked connection
C11_Witness ==
    /\ noise.kind = "error"
    /\ is_connected
    /\ \E c \in Calls : pc[c] = "waiting" /\ Registered(c) /\ ~EventSet(c)
                        /\ wake[c] = "none"

\* C12: a frame that is not valid JSON leaves the connection open and the
\* controller, the waiters and the calls untouched; a response frame the
\* same handler processes later resolves the waiter registered under its
\* id with its payload.
C12_MalformedFrameSkipped ==
    [][/\ noise'.kind = "malformed"
            => UNCHANGED <<ws, connected, pending_commands, conn, wire,
                           pc, wake, outcome, result>>
       /\ noise.kind = "malformed"
            => \A c \in Calls : \A r \in Results :
                  (Registered(c) /\ Receive(noise.conn, Response(cmd_id[c], r)))
                     => pending_commands'[cmd_id[c]] = [event |-> TRUE, result |-> r]
      ]_vars

\* a response resolved its waiter on a connection whose handler had
\* processed a malformed frame just before; the connection is still open
\* and tracked
C12_Witness ==
    \E k \in Conns :
        /\ noise = [kind |-> "recovered", conn |-> k]
        /\ conn[k] = "open" /\ ws = k /\ connected
        /\ \E c \in Calls : EventSet(c) /\ WrittenTo(c) = k

\* C13: once stop_server has returned, no connection is open or tracked,
\* is_connected() is false, no connection is accepted any more, and every
\* send_command that starts fails with the not-connected error.
C13_StoppedIsDisconnected ==
    /\ [](ws_server = "closed" =>
            /\ ws = None /\ ~connected /\ ~is_connected
            /\ \A k \in Conns : conn[k] \in {"new", "gone"})
    /\ [][ws_server = "closed" =>
            /\ \A k \in Conns : ~Connect(k)
            /\ \A c \in Calls : SendCommand(c) => outcome'[c] = "not_connected"
         ]_vars

\* the server was stopped after a connection served a call; a later call
\* found the controller disconnected, and a connection was never accepted
C13_Witness ==
    /\ ws_server = "closed"
    /\ conn[1] = "gone" /\ conn[2] = "new"
    /\ outcome[1] = "ok" /\ outcome[2] = "not_connected"

\* the latest call of get_browser_state_with_recovery has returned from
\* the success path / from the degraded path
SucceededRun ==
    /\ s_pc = "idle" /\ sent # <<>> /\ sent[Len(sent)] = "get_dom"
    /\ ret.kind = "summary"
DegradedRun == s_pc = "idle" /\ sent # <<>> /\ sent[Len(sent)] = "evaluate"

\* C14: a call whose get_dom reported failure returns, whatever the
\* recovery evaluate returned or raised, a summary with an empty selector
\* map, no root, the tracked URL (about:blank if there is none) and the
\* title "Bridge Error: " followed by the reported error text.
C14_DegradedOnDomFailure ==
    DegradedRun =>
        /\ ret.kind = "summary"
        /\ DOMAIN ret.selector_map = {}
        /\ ret.element_tree = Nothing
        /\ ret.url = (IF current_url = NoUrl THEN Blank ELSE current_url)
        /\ Len(ret.title) = 2
        /\ ret.title[1] = ErrorMarker
        /\ dom_result.error # Nothing => ret.title[2] = The(dom_result.error)

\* get_dom failed with an error text after a successful default
\* navigation, and the recovery evaluate raised
C14_Witness ==
    /\ DegradedRun
    /\ dom_result.kind = "fail" /\ dom_result.error # Nothing
    /\ eval_result.kind = "raise"
    /\ ret.kind = "summary" /\ ret.url = Landing

\* the key the claims give a raw element: its index, 0 if it has none
ReportedKey(e) == IF e.index = Nothing THEN 0 ELSE The(e.index)

\* the position of the last raw element reporting key k
LastWith(es, k) ==
    CHOOSE i \in DOMAIN es :
        /\ ReportedKey(es[i]) = k
        /\ \A j \in DOMAIN es : j > i => ReportedKey(es[j]) # k

\* C15: after a successful get_dom the keys of the selector map are the
\* indices the raw elements report (0 for an element without index), and
\* each key maps to the snapshot of the last raw element, in list order,
\* that reports it.
C15_LastWriteWins ==
    SucceededRun =>
        LET es == dom_result.elements
        IN /\ DOMAIN ret.selector_map = {ReportedKey(es[i]) : i \in DOMAIN es}
           /\ \A k \in DOMAIN ret.selector_map :
                 LET e == es[LastWith(es, k)]
                     snapshot == ret.selector_map[k]
                 IN /\ snapshot.highlight_index = e.index
                    /\ snapshot.tag_name =
                          (IF e.tagName = Nothing THEN "div" ELSE The(e.tagName))

\* two different raw elements collided on key 0, the first by having no
\* index; the map holds the second
C15_Witness ==
    /\ SucceededRun
    /\ Len(dom_result.elements) = 2
    /\ dom_result.elements[1].index = Nothing
    /\ dom_result.elements[2].index = Some(0)
    /\ dom_result.elements[1].tagName # dom_result.elements[2].tagName
    /\ DOMAIN ret.selector_map = {0}

\* the children of the returned root, as a set
RootChildren ==
    {The(ret.element_tree).children[j] :
        j \in DOMAIN The(ret.element_tree).children}

C17_FieldFallbacks ==
    m_info # Nothing =>
        LET info == The(m_info)
            Reported(o, default) == IF o = Nothing THEN default ELSE The(o)
        IN /\ info.viewport_width = Reported(m_raw.viewport.width, 1920)
           /\ info.viewport_height = Reported(m_raw.viewport.height, 1080)
           /\ info.page_width = Reported(m_raw.page.width, info.viewport_width)
           /\ info.page_height = Reported(m_raw.page.height, info.viewport_height)
           /\ info.scroll_x = Reported(m_raw.viewport.scrollX, 0)
           /\ info.scroll_y = Reported(m_raw.viewport.scrollY, 0)
           /\ info.pixels_above = Reported(m_raw.pixels.above, 0)
           /\ info.pixels_below = Reported(m_raw.pixels.below, 0)
           /\ info.pixels_left = Reported(m_raw.pixels.left, 0)
           /\ info.pixels_right = Reported(m_raw.pixels.right, 0)

\* C18: a call issues the default navigation first exactly when it starts
\* without a known URL (none, or about:blank), and get_dom first
\* otherwise; whatever result the navigation reports, get_dom is the next
\* command, and the tracked URL is the landing page if the navigation
\* reported success and what it was before if not.
C18_LandingBeforeDom ==
    sent # <<>> =>
        /\ sent[1] \in {"navigate", "get_dom"}
        /\ sent[1] = "navigate" <=> entry_url \in {NoUrl, Blank}
        /\ sent[1] = "navigate" => s_pc = "navigate" \/ nav_result.kind # "none"
        /\ nav_result.kind = "result" => Len(sent) >= 2 /\ sent[2] = "get_dom"
        /\ nav_result.kind = "raise" => sent = <<"navigate">>
        /\ (s_pc = "get_dom" /\ sent[1] = "navigate") =>
              current_url = (IF nav_result.success THEN Landing ELSE entry_url)

\* a call that started on about:blank was refused the navigation and now
\* awaits get_dom, still on about:blank
C18_Witness ==
    /\ s_pc = "get_dom"
    /\ entry_url = Blank
    /\ sent = <<"navigate", "get_dom">>
    /\ nav_result.kind = "result" /\ ~nav_result.success
    /\ current_url = Blank

\* the recovery evaluate succeeded with data
ReportedSizes ==
    /\ eval_result.kind = "result" /\ eval_result.success
    /\ eval_result.data # Nothing
    /\ The(eval_result.data).viewport # Nothing \/ The(eval_result.data).page # Nothing

\* C19: the degraded path issues one evaluate, right after the failed
\* get_dom and as its last command. When the evaluate succeeded with data
\* the returned metrics carry every size it reported; when it reported
\* failure, returned no data or raised they are 1920x1080 for viewport and
\* page. Scroll offsets and overflow counts are 0 in every case.
C19_RecoveryProbe ==
    DegradedRun =>
        LET info == ret.page_info
            n == Len(sent)
        IN /\ n >= 2 /\ sent[n - 1] = "get_dom"
           /\ Cardinality({i \in DOMAIN sent : sent[i] = "evaluate"}) = 1
           /\ ret.kind = "summary"
           /\ IF ReportedSizes
              THEN LET data == The(eval_result.data)
                   IN /\ data.viewport # Nothing =>
                            LET v == The(data.viewport)
                            IN /\ v.width # Nothing => info.viewport_width = The(v.width)
                               /\ v.height # Nothing => info.viewport_height = The(v.height)
                      /\ data.page # Nothing =>
                            LET p == The(data.page)
                            IN /\ p.width # Nothing => info.page_width = The(p.width)
                               /\ p.height # Nothing => info.page_height = The(p.height)
              ELSE /\ info.viewport_width = 1920 /\ info.viewport_height = 1080
                   /\ info.page_width = 1920 /\ info.page_height = 1080
           /\ info.scroll_x = 0 /\ info.scroll_y = 0
           /\ info.pixels_above = 0 /\ info.pixels_below = 0
           /\ info.pixels_left = 0 /\ info.pixels_right = 0

\* get_dom failed and the evaluate reported all four sizes: the summary
\* carries them
C19_Witness ==
    /\ DegradedRun /\ ReportedSizes
    /\ sent = <<"get_dom", "evaluate">>
    /\ ret.page_info.viewport_width = 800 /\ ret.page_info.viewport_height = 600
    /\ ret.page_info.page_width = 1000 /\ ret.page_info.page_height = 2000

\* C20: a call that succeeds on the get_dom result the call before it had
\* succeeded on returns a selector map with the same keys and the same
\* snapshot under every key, whatever the first call left in the session.
C20_SameSnapshotSameMap ==
    [][(/\ s_pc = "get_dom" /\ s_pc' = "idle"
        /\ ret.kind = "summary" /\ ret'.kind = "summary"
        /\ dom_result.kind = "ok" /\ dom_result' = dom_result)
         => /\ DOMAIN ret'.selector_map = DOMAIN ret.selector_map
            /\ \A k \in DOMAIN ret.selector_map :
                  ret'.selector_map[k] = ret.selector_map[k]]_vars

\* the second call started from the URL the first one had left, not from
\* the empty session, and succeeded on the same two-element snapshot
C20_Witness ==
    /\ SucceededRun /\ repeated
    /\ runs = 2
    /\ entry_url # NoUrl
    /\ Len(dom_result.elements) = 2
    /\ Cardinality(DOMAIN ret.selector_map) = 2

\* C21 (as claimed): two tab handles are equal if their ids match or,
\* failing that, if their urls match: a handle with id A and url U equals
\* a handle with id B and url U, and one with id A equals another with id A
\* whatever their urls.
C21_EqualByIdOrUrl ==
    (eq_out # Nothing /\ eq_other \in Handles)
        => The(eq_out) = (eq_self.id = eq_other.id \/ eq_self.url = eq_other.url)

Ended(op) == o_op = op /\ o_pc = "idle"

\* True is the value of the entry: a missing entry reads as False
Both(res) == res.kind = "result" /\ res.success = Some(TRUE) /\ res.flag = Some(TRUE)

\* C22: _click_element_node returns without an error only when the click
\* result has success true and clicked true; on every other result it
\* raises an error that names the element's index and the reported error
\* text; given a node without a highlight index it raises and no command
\* has been sent.
C22_ClickNeedsBothFlags ==
    Ended("click") =>
        /\ o_ret.kind \in {"returned", "raised"}
        /\ o_ret.kind = "returned" <=> Both(o_click)
        /\ (o_click.kind = "result" /\ ~Both(o_click)) =>
              /\ o_ret.message = "Click failed for element"
              /\ o_ret.index = The(o_node).highlight_index
              /\ o_ret.detail = Get(o_click.error, "unknown error")
        /\ The(o_node).highlight_index = Nothing =>
              o_ret.kind = "raised" /\ o_sent = <<>>

\* the click was reported successful but not clicked, with an error text
C22_Witness ==
    /\ Ended("click")
    /\ o_click.success = Some(TRUE) /\ o_click.flag = Some(FALSE)
    /\ o_click.error # Nothing
    /\ o_ret.kind = "raised" /\ o_ret.detail = The(o_click.error)

\* C23 (as claimed): when the type result has success false or typed
\* false, the input-text action the caller invoked ends with a raised
\* error, not with the report of a successful input.
C23_FailedTypeRaises ==
    (Ended("enhanced_input_text") /\ o_type.kind = "result" /\ ~Both(o_type))
        => o_ret.kind = "raised"

\* C24 (as claimed): once close() of a tab handle has returned the handle
\* is closed, whether close_tab reported success, reported failure or
\* failed in the transport; and close() never raises.
C24_ClosedAfterClose ==
    Ended("close") => (proxy.closed /\ o_ret.kind = "returned")

\* C25 (as claimed): goto(url) issues navigate_tab with the handle's tab id
\* (navigate for the handle of the current page), and when it is over the
\* handle's url is the requested one, also when the navigation was reported
\* failed or no response arrived.
C25_UrlSetWhateverTheOutcome ==
    o_op = "goto" =>
        /\ o_sent = <<IF proxy.cls = "tab"
                      THEN Command("navigate_tab", [tabId |-> proxy.id, url |-> o_url])
                      ELSE Command("navigate", [url |-> o_url])>>
        /\ o_pc = "idle" => proxy.url = o_url

\* C26: BridgeSession.navigate(url) returns true and sets the tracked URL
\* and the page's url to url exactly when the navigate result has success
\* true; otherwise it returns false (or the command's exception leaves it)
\* and the tracked URL and the page are unchanged.
C26_NavigateTracksOnSuccess ==
    [][(o_op = "navigate" /\ o_pc = "navigate" /\ o_pc' = "idle") =>
          IF o_nav'.kind = "result" /\ o_nav'.success
          THEN /\ o_ret' = Returned("True")
               /\ current_url' = o_url /\ page'.url = o_url
          ELSE /\ o_nav'.kind = "result" => o_ret' = Returned("False")
               /\ o_ret'.value # "True"
               /\ UNCHANGED <<current_url, page>>]_vars

\* a navigation failed after one to another url had succeeded
C26_Witness ==
    /\ Ended("navigate") /\ o_ret = Returned("False")
    /\ current_url \in Urls /\ current_url # o_url /\ page.url = current_url

\* C27: a call of get_browser_state_with_recovery made while the bridge is
\* not connected, or whose landing navigate or get_dom raises (not
\* connected, timeout), ends with a raised error; no summary is returned.
C27_TransportFailuresRaise ==
    (s_pc = "idle" /\ runs > 0
     /\ \/ sent = <<>>
        \/ nav_result.kind = "raise"
        \/ sent[Len(sent)] = "get_dom" /\ dom_result.kind = "raise")
        => ret.kind = "raised"

\* get_dom raised after the landing navigate had returned
C27_Witness ==
    /\ s_pc = "idle" /\ sent = <<"navigate", "get_dom">>
    /\ nav_result.kind = "result" /\ dom_result.kind = "raise"
    /\ ret.kind = "raised"

\* C28 (as claimed): _input_text_element_node sends type only after a
\* click whose result has success true and clicked true (a click with
\* success true and clicked false is a failed click: no type is sent and
\* failure is reported), and returns true only when the type result has
\* success true and typed true.
C28_TypeOnlyAfterClicked ==
    o_op = "input_text" =>
        /\ (\E i \in DOMAIN o_sent : o_sent[i].method = "type") => Both(o_click)
        /\ (o_pc = "idle" /\ o_click.kind = "result" /\ ~Both(o_click))
              => o_ret = Returned("False")
        /\ (o_pc = "idle" /\ o_ret = Returned("True")) => Both(o_type)

\* C29: when the write of the command frame fails after the waiter was
\* registered, send_command removes that waiter and no other and raises;
\* the waiter had not been there before the call, so pending_commands is
\* what it was before the call.
C29_FailedWriteRemovesWaiter ==
    [][\A c \in Calls :
          (pc[c] = "sending" /\ outcome'[c] = "send_failed") =>
              /\ Registered(c)
              /\ pc'[c] = "done"
              /\ cmd_id[c] \notin DOMAIN pending_commands'
              /\ \A i \in DOMAIN pending_commands \ {cmd_id[c]} :
                    /\ i \in DOMAIN pending_commands'
                    /\ pending_commands'[i] = pending_commands[i]
              /\ DOMAIN pending_commands' \subseteq DOMAIN pending_commands]_vars

\* a write has failed while the waiter of another call was registered
C29_Witness ==
    \E c, d \in Calls :
        /\ outcome[c] = "send_failed" /\ ~Registered(c)
        /\ d # c /\ Registered(d)

\* C30 (as claimed): after a successful get_browser_state_with_recovery the
\* tracked URL, the page's url and title and the url and title of the
\* returned summary agree: they are the snapshot's url, or the previously
\* tracked URL when the snapshot has none, and the snapshot's title; the
\* summary's tabs is one descriptor with that url and title; and the stored
\* tab list is the snapshot's tabs, empty when it has none.
C30_AgreeOnSnapshotOrTracked ==
    [][(s_pc = "get_dom" /\ s_pc' = "idle" /\ ret'.kind = "summary") =>
          LET url == Get(dom_result'.url, current_url)
              title == Get(dom_result'.title, "")
          IN /\ current_url' = url
             /\ page' = [url |-> url, title |-> title]
             /\ ret'.url = url /\ ret'.title = <<title>>
             /\ ret'.tabs = <<[page_id |-> 1, url |-> url, title |-> <<title>>]>>
             /\ tab_infos' = Get(dom_result'.tabs, <<>>)]_vars

\* C30 (amended): the same, the url being about:blank when the snapshot has
\* none and no URL was tracked.
C30_AgreeOnSnapshotOrTrackedOrBlank ==
    [][(s_pc = "get_dom" /\ s_pc' = "idle" /\ ret'.kind = "summary") =>
          LET url == Get(dom_result'.url,
                         IF current_url = NoUrl THEN Blank ELSE current_url)
              title == Get(dom_result'.title, "")
          IN /\ current_url' = url
             /\ page' = [url |-> url, title |-> title]
             /\ ret'.url = url /\ ret'.title = <<title>>
             /\ ret'.tabs = <<[page_id |-> 1, url |-> url, title |-> <<title>>]>>
             /\ tab_infos' = Get(dom_result'.tabs, <<>>)]_vars

\* a call has succeeded on a snapshot without a url, with a title and a
\* tab list, a URL being tracked
C30_Witness ==
    /\ SucceededRun
    /\ dom_result.url = Nothing /\ dom_result.title # Nothing
    /\ dom_result.tabs # Nothing /\ tab_infos = The(dom_result.tabs)
    /\ current_url = Landing /\ ret.url = Landing /\ page.url = Landing

\* C31: a call of get_browser_state_with_recovery that starts with a known
\* current URL and whose get_dom reports failure changes no session state:
\* it sends no navigate, and none of its steps changes the tracked URL, the
\* page's url and title or the stored tab list.
C31_DegradedChangesNothing ==
    /\ [](DegradedRun /\ entry_url \notin {NoUrl, Blank}
            => (current_url = entry_url /\ sent = <<"get_dom", "evaluate">>))
    /\ [][(/\ entry_url' \notin {NoUrl, Blank}
           /\ \/ s_pc = "idle" /\ s_pc' = "get_dom"
              \/ s_pc = "get_dom" /\ dom_result'.kind = "fail"
              \/ s_pc = "evaluate")
             => UNCHANGED <<current_url, page, tab_infos>>]_vars

\* a degraded call has returned in a session that tracks a URL, a page
\* title and a tab list
C31_Witness ==
    /\ DegradedRun /\ ret.kind = "summary"
    /\ entry_url = "https://example.com/" /\ current_url = entry_url
    /\ page = [url |-> entry_url, title |-> "Example"]
    /\ tab_infos # <<>>

\* C32 (as claimed): pending_commands holds exactly the ids of the
\* send_command calls that are suspended awaiting a response; with no call
\* in progress it is empty.
C32_OnlyCallsInProgress ==
    DOMAIN pending_commands =
        {cmd_id[c] : c \in {d \in Calls : pc[d] \in {"sending", "waiting"}}}

\* C33 (as claimed): while a connection is open and served, is_connected()
\* is true, so send_command does not fail as not connected; the closing of
\* a displaced connection does not clear the handle and the flag of the
\* connection that displaced it.
C33_OpenMeansConnected ==
    (\E k \in Conns : conn[k] = "open") => is_connected

\* C34 (as claimed): for every entry of a returned selector map, the
\* highlight index of the element is the key it is stored under.
C34_HighlightIndexIsKey ==
    SucceededRun =>
        \A k \in DOMAIN ret.selector_map :
            ret.selector_map[k].highlight_index = Some(k)

\* C35: in every state another coroutine can observe, connected is true
\* exactly when the connection handle is not None, so is_connected() equals
\* the connected flag.
C35_FlagIffHandle ==
    /\ connected <=> ws # None
    /\ is_connected <=> connected

\* a second connection has displaced the first, and the handlers of both
\* have since run their cleanup
C35_Witness ==
    /\ \A k \in Conns : conn[k] = "gone"
    /\ ~connected /\ ws = None

\* C36 (as claimed): equality of tab handles is symmetric: for handles a
\* and b of the tabs accessor, a == b exactly when b == a.
C36_EqualitySymmetric ==
    (eq_out # Nothing /\ eq_other \in Handles)
        => The(eq_out) = Eq(eq_other, eq_self)

\* C37 (as claimed): at most one task thread is alive at a time: run_task
\* never starts a second task thread while an earlier one is running.
C37_OneTaskAtATime ==
    Cardinality({t \in Threads : Alive(t)}) <= 1

\* C38 (as claimed): once stop_task has accepted a stop request for a
\* running task, stop_task_requested stays true until the thread of that
\* task has finished, and the task ends by emitting task_stopped, never
\* task_completed.
C38_StopNeverLost ==
    \A t \in accepted :
        /\ t_pc[t] \notin {"558", "dead"} => stop_task_requested
        /\ emitted[t] # "task_completed"
        /\ t_pc[t] = "dead" => emitted[t] = "task_stopped"

\* C39 (as claimed): is_task_running, which /api/status reports, is true
\* exactly while a task thread is alive.
C39_RunningIffThreadAlive ==
    is_task_running <=> \E t \in Threads : Alive(t)

\* C40: after any sequence of record_autocomplete_event calls
\* autocomplete_history holds at most 50 events, and they are the events
\* recorded last, in the order of their recording.
C40_LastFiftyInOrder ==
    LET n == Len(recorded)
        kept == IF n > HistoryCap THEN HistoryCap ELSE n
    IN /\ Len(autocomplete_history) = kept
       /\ \A i \in 1..kept : autocomplete_history[i] = recorded[n - kept + i]

\* more than 50 events have been recorded, the one that reports a detection
\* among those dropped
C40_Witness ==
    /\ Len(recorded) > HistoryCap + 1
    /\ recorded[2].detected
    /\ \A i \in DOMAIN autocomplete_history : ~autocomplete_history[i].detected

====
